---- MODULE Spec2Model ----
(***************************************************************************)
(* Model of src/agent.py: the AppointmentBookingAgent tool operations      *)
(* (check_availability, book_appointment) and the entrypoint that sets a   *)
(* call up.                                                                *)
(*                                                                         *)
(* Text is modelled as a sequence of pieces.  Text that comes from outside *)
(* the program (tool arguments, backend payload fields) is a sequence of   *)
(* one-character strings, so that split / lower / "in" / strptime work on  *)
(* characters as the code does.  A literal of the program is one piece.    *)
(***************************************************************************)
EXTENDS Integers, Sequences, FiniteSets, TLC

VARIABLES
    pc,             \* position of entrypoint(ctx)
    room_metadata,  \* ctx.room.metadata as delivered with the job
    env,            \* process environment read by __init__ (os.getenv)
    business_name,  \* entrypoint local
    booking_agent,  \* entrypoint local: the AppointmentBookingAgent or NoAgent
    connected,      \* ctx.connect() has completed
    registered,     \* tool names registered with the VoiceAssistant
    inv,            \* the tool invocation in progress / last completed
    sent,           \* outbound requests issued by the current invocation
    netCalls,       \* outbound requests issued since the job started
    nInv,           \* tool invocations started since the job started
    prev            \* history: the completed invocation before the current one

vars == <<pc, room_metadata, env, business_name, booking_agent, connected,
          registered, inv, sent, netCalls, nInv, prev>>

(***************************************************************************)
(* Bounds of the model                                                     *)
(***************************************************************************)
MaxInvocations == 2
MaxSlots == 2
MaxPad == 5

(***************************************************************************)
(* Characters and text helpers (Python str operations used by the code)    *)
(***************************************************************************)
Digits == <<"0", "1", "2", "3", "4", "5", "6", "7", "8", "9">>

IsDigit(c) == \E i \in 1..10 : Digits[i] = c

DigitVal(c) == (CHOOSE i \in 1..10 : Digits[i] = c) - 1

Upper == <<"A", "B", "C", "D", "E", "F", "G", "H", "I", "J", "K", "L", "M",
           "N", "O", "P", "Q", "R", "S", "T", "U", "V", "W", "X", "Y", "Z">>

Lower == <<"a", "b", "c", "d", "e", "f", "g", "h", "i", "j", "k", "l", "m",
           "n", "o", "p", "q", "r", "s", "t", "u", "v", "w", "x", "y", "z">>

\* str.lower() on one character
LowerChar(c) ==
    IF \E i \in 1..26 : Upper[i] = c
    THEN Lower[CHOOSE i \in 1..26 : Upper[i] = c]
    ELSE c

\* str.lower()
StrLower(s) == [i \in 1..Len(s) |-> LowerChar(s[i])]

\* needle in hay
StrContains(needle, hay) ==
    \E k \in 0..(Len(hay) - Len(needle)) :
        \A i \in 1..Len(needle) : hay[k + i] = needle[i]

\* index of the first occurrence of character c in s, 0 when absent
FirstIndex(s, c) ==
    IF \E i \in 1..Len(s) : s[i] = c
    THEN CHOOSE i \in 1..Len(s) : s[i] = c /\ \A j \in 1..(i - 1) : s[j] # c
    ELSE 0

\* s.split(c) for a one-character separator: never empty, keeps empty fields
RECURSIVE StrSplit(_, _)
StrSplit(s, c) ==
    LET k == FirstIndex(s, c)
    IN  IF k = 0
        THEN <<s>>
        ELSE <<SubSeq(s, 1, k - 1)>> \o StrSplit(SubSeq(s, k + 1, Len(s)), c)

\* sep.join(parts)
RECURSIVE StrJoin(_, _)
StrJoin(parts, sep) ==
    IF Len(parts) = 0 THEN <<>>
    ELSE IF Len(parts) = 1 THEN parts[1]
    ELSE parts[1] \o sep \o StrJoin(Tail(parts), sep)

\* seq[:n]
Take(seq, n) == SubSeq(seq, 1, IF Len(seq) < n THEN Len(seq) ELSE n)

\* int() of a run of decimal digits
RECURSIVE DigitsToInt(_)
DigitsToInt(s) ==
    IF Len(s) = 0 THEN 0
    ELSE 10 * DigitsToInt(SubSeq(s, 1, Len(s) - 1)) + DigitVal(s[Len(s)])

AllDigits(s) == \A i \in 1..Len(s) : IsDigit(s[i])

\* "%0<width>d" % n, for 0 <= n
RECURSIVE ZeroPad(_, _)
ZeroPad(n, width) ==
    IF width = 0 THEN <<>>
    ELSE ZeroPad(n \div 10, width - 1) \o <<Digits[(n % 10) + 1]>>

(***************************************************************************)
(* datetime: strptime, timedelta addition, isoformat                       *)
(***************************************************************************)
IsLeap(y) == (y % 4 = 0) /\ ((y % 100 # 0) \/ (y % 400 = 0))

DaysInMonth(y, m) ==
    IF m = 2 THEN (IF IsLeap(y) THEN 29 ELSE 28)
    ELSE IF m \in {4, 6, 9, 11} THEN 30 ELSE 31

DaysBeforeYear(y) ==
    LET p == y - 1 IN p * 365 + (p \div 4) - (p \div 100) + (p \div 400)

RECURSIVE DaysBeforeMonth(_, _)
DaysBeforeMonth(y, m) ==
    IF m = 1 THEN 0 ELSE DaysBeforeMonth(y, m - 1) + DaysInMonth(y, m - 1)

\* date.toordinal(): 0001-01-01 is day 1
ToOrdinal(y, m, d) == DaysBeforeYear(y) + DaysBeforeMonth(y, m) + d

\* date.fromordinal(), as datetime._ord2ymd computes it
FromOrdinal(n) ==
    LET n0   == n - 1
        n400 == n0 \div 146097
        r400 == n0 % 146097
        n100 == r400 \div 36524
        r100 == r400 % 36524
        n4   == r100 \div 1461
        r4   == r100 % 1461
        n1   == r4 \div 365
        r1   == r4 % 365
        year == n400 * 400 + 1 + n100 * 100 + n4 * 4 + n1
    IN  IF n1 = 4 \/ n100 = 4
        THEN [year |-> year - 1, month |-> 12, day |-> 31]
        ELSE LET leap  == n1 = 3 /\ (n4 # 24 \/ n100 = 3)
                 extra(m) == IF m > 2 /\ leap THEN 1 ELSE 0
                 m0    == (r1 + 50) \div 32
                 pre0  == DaysBeforeMonth(1, m0) + extra(m0)
                 month == IF pre0 > r1 THEN m0 - 1 ELSE m0
                 pre   == IF pre0 > r1
                          THEN pre0 - (DaysInMonth(1, month)
                                       + (IF month = 2 /\ leap THEN 1 ELSE 0))
                          ELSE pre0
             IN  [year |-> year, month |-> month, day |-> r1 - pre + 1]

NoDateTime == [ok |-> FALSE, year |-> 0, month |-> 0, day |-> 0, hour |-> 0, minute |-> 0]

\* one numeric directive of the format: minDigits..maxDigits digits, value in lo..hi
FieldOk(s, minDigits, maxDigits, lo, hi) ==
    /\ Len(s) >= minDigits
    /\ Len(s) <= maxDigits
    /\ AllDigits(s)
    /\ DigitsToInt(s) >= lo
    /\ DigitsToInt(s) <= hi

\* datetime.strptime(text, "%Y-%m-%d %H:%M"); ok = FALSE stands for ValueError.
\* The blank of the format matches one or more blanks of the text.
Strptime(text) ==
    LET parts  == StrSplit(text, " ")
        dparts == StrSplit(parts[1], "-")
        tparts == StrSplit(parts[Len(parts)], ":")
    IN  IF /\ Len(parts) >= 2
           /\ \A i \in 2..(Len(parts) - 1) : parts[i] = <<>>
           /\ Len(dparts) = 3
           /\ Len(tparts) = 2
           /\ FieldOk(dparts[1], 4, 4, 1, 9999)
           /\ FieldOk(dparts[2], 1, 2, 1, 12)
           /\ FieldOk(dparts[3], 1, 2, 1, 31)
           /\ FieldOk(tparts[1], 1, 2, 0, 23)
           /\ FieldOk(tparts[2], 1, 2, 0, 59)
           /\ DigitsToInt(dparts[3])
                 <= DaysInMonth(DigitsToInt(dparts[1]), DigitsToInt(dparts[2]))
        THEN [ok |-> TRUE,
              year |-> DigitsToInt(dparts[1]), month |-> DigitsToInt(dparts[2]),
              day |-> DigitsToInt(dparts[3]), hour |-> DigitsToInt(tparts[1]),
              minute |-> DigitsToInt(tparts[2])]
        ELSE NoDateTime

\* dt + timedelta(minutes=n); ok = FALSE stands for OverflowError
AddMinutes(dt, n) ==
    LET total == dt.hour * 60 + dt.minute + n
        ord   == ToOrdinal(dt.year, dt.month, dt.day) + (total \div 1440)
        rest  == total % 1440
    IN  IF ord < 1 \/ ord > ToOrdinal(9999, 12, 31)
        THEN NoDateTime
        ELSE LET d == FromOrdinal(ord)
             IN  [ok |-> TRUE, year |-> d.year, month |-> d.month, day |-> d.day,
                  hour |-> rest \div 60, minute |-> rest % 60]

\* datetime.isoformat() of a datetime with zero seconds and microseconds
IsoFormat(dt) ==
    ZeroPad(dt.year, 4) \o <<"-">> \o ZeroPad(dt.month, 2) \o <<"-">>
        \o ZeroPad(dt.day, 2) \o <<"T">> \o ZeroPad(dt.hour, 2) \o <<":">>
        \o ZeroPad(dt.minute, 2) \o <<":">> \o <<"0", "0">>

(***************************************************************************)
(* Values that cross the program's boundary                                *)
(***************************************************************************)
\* A JSON / Python scalar as the program sees it: absent key, None, a str
\* (v holds it), or a number (n holds it).
Absent == [t |-> "absent", v |-> "", n |-> 0]

PyNone == [t |-> "none", v |-> "", n |-> 0]

PyStr(s) == [t |-> "str", v |-> s, n |-> 0]

PyNum(k) == [t |-> "num", v |-> "", n |-> k]

\* bool(x) / "if x" / "not x" of Python for these values
Truthy(x) ==
    \/ x.t = "str" /\ x.v # ""
    \/ x.t = "num" /\ x.n # 0

\* The same for a payload field whose str value is character text
NoText == [t |-> "absent", v |-> <<>>]

NullText == [t |-> "none", v |-> <<>>]

Text(s) == [t |-> "str", v |-> s]

\* dict.get(key, default) where the model keeps the key's value or Absent
DictGet(value, default) == IF value.t = "absent" THEN default ELSE value

\* ctx.room.metadata: None, or a text that json.loads rejects ("garbage"),
\* parses to a non-object ("list"), or parses to an object with the two keys.
Metadata(text, id, name) == [text |-> text, businessId |-> id, businessName |-> name]

RoomMetadatas ==
    { Metadata("none", Absent, Absent),
      Metadata("empty", Absent, Absent),
      Metadata("garbage", Absent, Absent),
      Metadata("list", Absent, Absent),
      Metadata("object", Absent, Absent),
      Metadata("object", Absent, PyStr("Salon One")),
      Metadata("object", PyNone, PyStr("Salon One")),
      Metadata("object", PyStr(""), PyStr("Salon One")),
      Metadata("object", PyNum(0), Absent),
      Metadata("object", PyStr("biz_1"), PyStr("Salon One")),
      Metadata("object", PyStr("biz_2"), Absent) }

\* os.environ: the two variables __init__ reads
Envs ==
    { [ELEVOI_API_URL |-> Absent, ELEVOI_API_KEY |-> Absent],
      [ELEVOI_API_URL |-> PyStr("https://staging.example"), ELEVOI_API_KEY |-> PyStr("secret")] }

\* os.getenv(name, default)
GetEnv(e, name, default) == DictGet(e[name], PyStr(default)).v

(***************************************************************************)
(* Tool arguments the dialog layer may pass                                *)
(***************************************************************************)
Dates ==
    { <<"2", "0", "2", "4", "-", "0", "6", "-", "0", "1">>, <<"2", "0", "2", "4", "-", "1", "2", "-", "3", "1">>, <<"9", "9", "9", "9", "-", "1", "2", "-", "3", "1">>, <<"2", "0", "2", "4", "-", "0", "2", "-", "3", "0">>, <<"t", "o", "m", "o", "r", "r", "o", "w">> }

AvailabilityDates == { <<"2", "0", "2", "4", "-", "0", "6", "-", "0", "1">>, <<"t", "o", "m", "o", "r", "r", "o", "w">> }

Times == { <<"1", "4", ":", "0", "0">>, <<"2", "3", ":", "3", "0">>, <<"2", "4", ":", "0", "0">>, <<"2", "p", "m">> }

Durations == { -30, 0, 30, 45, 60 }

AvailabilityDurations == { 30, 45 }

Services == { "Haircut" }

CustomerNames == { "Jane Doe" }

CustomerPhones == { "+15551234567" }

(***************************************************************************)
(* What the backend may do with a request                                  *)
(***************************************************************************)
\* One element of "slots": a JSON object with a startTime (or without), or
\* something that is not an object.
Slot(kind, startTime) == [kind |-> kind, startTime |-> startTime]

SlotValues ==
    { Slot("object", Text(<<"2", "0", "2", "4", "-", "0", "6", "-", "0", "1", "T", "0", "9", ":", "0", "0", ":", "0", "0">>)),
      Slot("object", Text(<<"2", "0", "2", "4", "-", "0", "6", "-", "0", "1", "T", "1", "4", ":", "3", "0", ":", "0", "0", "+", "0", "2", ":", "0", "0">>)),
      Slot("object", Text(<<"2", "0", "2", "4", "-", "0", "6", "-", "0", "1", "T", "0", "9">>)),
      Slot("object", Text(<<"0", "9", ":", "0", "0">>)),
      Slot("object", NoText),
      Slot("object", NullText),
      Slot("string", NoText) }

PadValues ==
    { Slot("object", Text(<<"2", "0", "2", "4", "-", "0", "6", "-", "0", "1", "T", "0", "9", ":", "0", "0", ":", "0", "0">>)),
      Slot("object", Text(<<"0", "9", ":", "0", "0">>)) }

RECURSIVE SeqsUpTo(_, _)
SeqsUpTo(S, n) ==
    IF n = 0 THEN { <<>> }
    ELSE LET shorter == SeqsUpTo(S, n - 1)
         IN  shorter \cup { Append(s, x) : s \in shorter, x \in S }

Repeat(x, n) == [i \in 1..n |-> x]

\* slot lists: every list of up to MaxSlots values, and every value behind up
\* to MaxPad copies of one value
SlotLists ==
    SeqsUpTo(SlotValues, MaxSlots)
    \cup { Append(Repeat(p, k), x) : p \in PadValues, k \in 1..MaxPad, x \in SlotValues }

\* A response body: text that is not JSON, JSON that is not an object, or an
\* object with the keys the code reads.  slotsKind says what "slots" holds.
Body(kind, available, slotsKind, slots, error) ==
    [kind |-> kind, available |-> available, slotsKind |-> slotsKind,
     slots |-> slots, error |-> error]

EmptyBody == Body("object", Absent, "absent", <<>>, NoText)

PyTrue == PyNum(1)

PyFalse == PyNum(0)

AvailabilityBodies ==
    { Body("not_json", Absent, "absent", <<>>, NoText),
      Body("list", Absent, "absent", <<>>, NoText),
      EmptyBody,
      Body("object", PyTrue, "absent", <<>>, NoText),
      Body("object", PyTrue, "number", <<>>, NoText),
      Body("object", PyTrue, "string", <<>>, NoText),
      Body("object", PyNone, "list", <<Slot("object", Text(<<"2", "0", "2", "4", "-", "0", "6", "-", "0", "1", "T", "0", "9", ":", "0", "0", ":", "0", "0">>))>>, NoText) }
    \cup { Body("object", PyTrue, "list", s, NoText) : s \in SlotLists }
    \cup { Body("object", PyFalse, "list", s, NoText) : s \in SeqsUpTo(PadValues, 1) }

ErrorValues ==
    { NoText, NullText,
      Text(<<"s", "l", "o", "t", " ", "a", "l", "r", "e", "a", "d", "y", " ", "b", "o", "o", "k", "e", "d">>),
      Text(<<"S", "l", "o", "t", " ", "A", "l", "r", "e", "a", "d", "y", " ", "B", "o", "o", "k", "e", "d">>),
      Text(<<"T", "h", "i", "s", " ", "s", "l", "o", "t", " ", "i", "s", " ", "b", "o", "o", "k", "e", "d">>),
      Text(<<"I", "n", "v", "a", "l", "i", "d", " ", "p", "h", "o", "n", "e", " ", "n", "u", "m", "b", "e", "r">>) }

BookingBodies ==
    { Body("not_json", Absent, "absent", <<>>, NoText),
      Body("list", Absent, "absent", <<>>, NoText) }
    \cup { Body("object", Absent, "absent", <<>>, e) : e \in ErrorValues }

\* transport: "ok" (a response arrived), or the httpx exception raised
Response(transport, status, body) == [transport |-> transport, status |-> status, body |-> body]

NoResponse == Response("none", 0, EmptyBody)

TransportFailures ==
    { Response("connect_error", 0, EmptyBody), Response("timeout", 0, EmptyBody) }

AvailabilityResponses ==
    TransportFailures
    \cup { Response("ok", st, EmptyBody) : st \in {204, 302, 404, 500} }
    \cup { Response("ok", 200, b) : b \in AvailabilityBodies }

BookingResponses ==
    TransportFailures
    \cup { Response("ok", 201, b) : b \in {EmptyBody, Body("not_json", Absent, "absent", <<>>, NoText)} }
    \cup { Response("ok", st, b) : st \in {200, 409, 500}, b \in BookingBodies }

(***************************************************************************)
(* Program constants                                                       *)
(***************************************************************************)
HTTP_OK == 200

HTTP_CREATED == 201

SlotsConsidered == 5

TimesListed == 3

(***************************************************************************)
(* AppointmentBookingAgent                                                 *)
(***************************************************************************)
NoAgent == [business_id |-> PyNone, elevoi_api_url |-> "", elevoi_api_key |-> ""]

\* __init__(self, business_id)
NewAgent(business_id, e) ==
    [business_id |-> business_id,
     elevoi_api_url |-> GetEnv(e, "ELEVOI_API_URL", "https://elevoi.vercel.app"),
     elevoi_api_key |-> GetEnv(e, "ELEVOI_API_KEY", "")]

\* An outbound HTTP request; the fields an operation does not send are blank.
NoRequest ==
    [method |-> "", url |-> <<>>, authorization |-> <<>>, businessId |-> PyNone,
     date |-> <<>>, duration |-> 0, customerName |-> "", customerPhone |-> "",
     service |-> "", startTime |-> <<>>, endTime |-> <<>>, notes |-> ""]

\* The outcome of a block of code: a value, or an exception raised
Ret(value) == [exc |-> FALSE, ret |-> value]

Raise == [exc |-> TRUE, ret |-> <<>>]

\* str(n) for 0 <= n
RECURSIVE IntText(_)
IntText(n) ==
    IF n < 10 THEN <<Digits[n + 1]>>
    ELSE IntText(n \div 10) \o <<Digits[(n % 10) + 1]>>

\* the client.get(...) call of check_availability
AvailabilityRequest(self, date, duration_minutes) ==
    [NoRequest EXCEPT
        !.method = "GET",
        !.url = <<self.elevoi_api_url, "/api/voice-agent/availability">>,
        !.authorization = <<"Bearer ", self.elevoi_api_key>>,
        !.businessId = self.business_id,
        !.date = date,
        !.duration = duration_minutes]

\* the body of the "for slot in slots" loop: the time strings one slot
\* appends to slot_times (none or one), or the exception it raises
SlotTime(slot) ==
    IF slot.kind # "object"
    THEN Raise
    ELSE LET start_time == DictGet(slot.startTime, Text(<<>>))
         IN  IF start_time.t # "str"
             THEN Raise
             ELSE IF StrContains(<<"T">>, start_time.v)
                  THEN Ret(<<StrJoin(Take(StrSplit(StrSplit(start_time.v, "T")[2], ":"), 2),
                                     <<":">>)>>)
                  ELSE Ret(<<>>)

\* the whole loop: slot_times, or the first exception
RECURSIVE SlotTimes(_)
SlotTimes(slots) ==
    IF Len(slots) = 0
    THEN Ret(<<>>)
    ELSE LET first == SlotTime(Head(slots))
             rest  == SlotTimes(Tail(slots))
         IN  IF first.exc \/ rest.exc THEN Raise ELSE Ret(first.ret \o rest.ret)

\* the join without the [:3]
TimesStrAll(slot_times) == StrJoin(slot_times, <<", ">>)

\* ", ".join(slot_times[:3])
TimesStr(slot_times) == StrJoin(Take(slot_times, TimesListed), <<", ">>)

AvailableTimesSentence(date, times_str) ==
    <<"Yes, we have availability on ">> \o date
        \o <<". Some available times are: ">> \o times_str
        \o <<". What time works best for you?">>

SlotCountSentence(count, date) ==
    <<"We have ">> \o IntText(count) \o <<" available slots on ">> \o date
        \o <<". What time would you prefer?">>

NoAvailabilitySentence(date) ==
    <<"I'm sorry, we don't have any availability on ">> \o date
        \o <<". Would you like to try a different date?">>

AvailabilityTroubleStaff ==
    <<"I'm having trouble checking availability. Let me transfer you to our staff.">>

AvailabilityTroubleNow ==
    <<"I'm having trouble checking availability right now.">>

\* bool(data.get("slots"))
SlotsTruthy(data) ==
    \/ data.slotsKind = "list" /\ Len(data.slots) > 0
    \/ data.slotsKind \in {"number", "string"}

\* the test without "and data.get("slots")"
HasSlotsIgnored(data) == Truthy(data.available)

\* data.get("available") and data.get("slots")
HasSlots(data) == Truthy(data.available) /\ SlotsTruthy(data)

\* the branch taken for a 200 whose payload parsed to a dict
FormatAvailability(date, data) ==
    IF HasSlots(data)
    THEN IF data.slotsKind # "list"
         THEN Raise
         ELSE LET slots      == Take(data.slots, SlotsConsidered)
                  slot_times == SlotTimes(slots)
              IN  IF slot_times.exc
                  THEN Raise
                  ELSE IF Len(slot_times.ret) > 0
                       THEN Ret(AvailableTimesSentence(date, TimesStr(slot_times.ret)))
                       ELSE Ret(SlotCountSentence(Len(slots), date))
    ELSE Ret(NoAvailabilitySentence(date))

\* response.json() followed by the first data.get / error_data.get
JsonDict(body) == IF body.kind = "object" THEN Ret(body) ELSE Raise

\* the try block of check_availability from the moment the request is answered
AvailabilityTry(date, response) ==
    IF response.transport # "ok"
    THEN Raise
    ELSE IF response.status = HTTP_OK
         THEN LET data == JsonDict(response.body)
              IN  IF data.exc THEN Raise ELSE FormatAvailability(date, data.ret)
         ELSE Ret(AvailabilityTroubleStaff)

\* a handler whose except clause does not catch
TryExceptPropagates(outcome, fallback) == outcome

\* try: ... except Exception: return fallback
TryExcept(outcome, fallback) == IF outcome.exc THEN Ret(fallback) ELSE outcome

\* check_availability(date, duration_minutes), given the backend's answer
check_availability(date, response) ==
    TryExcept(AvailabilityTry(date, response), AvailabilityTroubleNow)

\* start_datetime, end_datetime and their isoformat()
BookingTimes(date, time, duration_minutes) ==
    LET start_datetime == Strptime(date \o <<" ">> \o time)
        end_datetime   == AddMinutes(start_datetime, duration_minutes)
    IN  IF ~start_datetime.ok
        THEN Raise
        ELSE IF ~end_datetime.ok
             THEN Raise
             ELSE Ret([startTime |-> IsoFormat(start_datetime),
                       endTime |-> IsoFormat(end_datetime)])

\* the post without the businessId key
BookingRequestNoBusinessId(self, service, customer_name, customer_phone, times) ==
    [NoRequest EXCEPT
        !.method = "POST",
        !.url = <<self.elevoi_api_url, "/api/voice-agent/book">>,
        !.authorization = <<"Bearer ", self.elevoi_api_key>>,
        !.customerName = customer_name,
        !.customerPhone = customer_phone,
        !.service = service,
        !.startTime = times.startTime,
        !.endTime = times.endTime,
        !.notes = "Booked via AI voice agent"]

\* the client.post(...) call of book_appointment
BookingRequest(self, service, customer_name, customer_phone, times) ==
    [NoRequest EXCEPT
        !.method = "POST",
        !.url = <<self.elevoi_api_url, "/api/voice-agent/book">>,
        !.authorization = <<"Bearer ", self.elevoi_api_key>>,
        !.businessId = self.business_id,
        !.customerName = customer_name,
        !.customerPhone = customer_phone,
        !.service = service,
        !.startTime = times.startTime,
        !.endTime = times.endTime,
        !.notes = "Booked via AI voice agent"]

\* the request built before the date and time are parsed
BookingRequestsUnparsed(self, date, time, service, customer_name, customer_phone, duration_minutes) ==
    <<BookingRequest(self, service, customer_name, customer_phone,
                     [startTime |-> date \o <<"T">> \o time, endTime |-> date \o <<"T">> \o time])>>

\* the requests book_appointment issues: none when the times cannot be derived
BookingRequests(self, date, time, service, customer_name, customer_phone, duration_minutes) ==
    LET times == BookingTimes(date, time, duration_minutes)
    IN  IF times.exc
        THEN <<>>
        ELSE <<BookingRequest(self, service, customer_name, customer_phone, times.ret)>>

ConfirmedSentence(service, date, time) ==
    <<"Perfect! Your ", service, " appointment is confirmed for ">> \o date
        \o <<" at ">> \o time
        \o <<". You'll receive a confirmation text message shortly. Is there anything else I can help you with?">>

SlotTakenSentence ==
    <<"I apologize, but that time slot was just booked by someone else. Let me check other available times for you.">>

CouldNotBookSentence(error_msg) == <<"I couldn't book that appointment. ">> \o error_msg

BookingTroubleStaff ==
    <<"I'm having trouble booking the appointment right now. Let me transfer you to our staff.">>

\* the test without .lower()
IsSlotConflictCaseSensitive(error_msg) == StrContains(<<"a", "l", "r", "e", "a", "d", "y", " ", "b", "o", "o", "k", "e", "d">>, error_msg)

\* "already booked" in error_msg.lower()
IsSlotConflict(error_msg) == StrContains(<<"a", "l", "r", "e", "a", "d", "y", " ", "b", "o", "o", "k", "e", "d">>, StrLower(error_msg))

\* the else branch of "if response.status_code == 201"
BookingFailure(error_data) ==
    LET error_msg == DictGet(error_data.error, Text(<<"P", "l", "e", "a", "s", "e", " ", "t", "r", "y", " ", "a", "g", "a", "i", "n", ".">>))
    IN  IF error_msg.t # "str"
        THEN Raise
        ELSE IF IsSlotConflict(error_msg.v)
             THEN Ret(SlotTakenSentence)
             ELSE Ret(CouldNotBookSentence(error_msg.v))

\* the try block of book_appointment from the moment the request is answered
BookingTry(date, time, service, response) ==
    IF response.transport # "ok"
    THEN Raise
    ELSE IF response.status = HTTP_CREATED
         THEN IF response.body.kind = "not_json"
              THEN Raise
              ELSE Ret(ConfirmedSentence(service, date, time))
         ELSE LET error_data == JsonDict(response.body)
              IN  IF error_data.exc THEN Raise ELSE BookingFailure(error_data.ret)

\* book_appointment(...), given the backend's answer
book_appointment(date, time, service, response) ==
    TryExcept(BookingTry(date, time, service, response), BookingTroubleStaff)

\* book_appointment(...) when no request could be issued
book_appointment_unsent == TryExcept(Raise, BookingTroubleStaff)

(***************************************************************************)
(* entrypoint(ctx)                                                         *)
(***************************************************************************)
\* room_metadata = ctx.room.metadata or "{}", json.loads, the two .get calls,
\* and the bare except that resets both names
ParseMetadata(md) ==
    IF md.text = "object"
    THEN [business_name |-> DictGet(md.businessName, PyStr("our business")),
          business_id   |-> DictGet(md.businessId, PyNone)]
    ELSE [business_name |-> PyStr("our business"), business_id |-> PyNone]

\* "if business_id is None: return"
MissingBusinessIdOnlyNone(business_id) == business_id.t = "none"

\* "if not business_id: return"
MissingBusinessId(business_id) == ~Truthy(business_id)

NoInvocation ==
    [op |-> "none", phase |-> "idle", date |-> <<>>, time |-> <<>>, service |-> "",
     customer_name |-> "", customer_phone |-> "", duration_minutes |-> 0,
     response |-> NoResponse, reply |-> <<>>, raised |-> FALSE]

Init ==
    /\ pc = "start"
    /\ room_metadata \in RoomMetadatas
    /\ env \in Envs
    /\ business_name = PyNone
    /\ booking_agent = NoAgent
    /\ connected = FALSE
    /\ registered = {}
    /\ inv = NoInvocation
    /\ sent = <<>>
    /\ netCalls = 0
    /\ nInv = 0
    /\ prev = NoInvocation

\* entrypoint up to its first await: parse the metadata, then either return
\* or build the booking agent and the chat context and call ctx.connect()
EntrypointSetup ==
    /\ pc = "start"
    /\ LET md == ParseMetadata(room_metadata)
       IN  IF MissingBusinessId(md.business_id)
           THEN /\ pc' = "aborted"
                /\ UNCHANGED <<business_name, booking_agent>>
           ELSE /\ pc' = "connecting"
                /\ business_name' = md.business_name
                /\ booking_agent' = NewAgent(md.business_id, env)
    /\ UNCHANGED <<room_metadata, env, connected, registered, inv, sent, netCalls, nInv, prev>>

\* await ctx.connect(...) completes; entrypoint waits for a participant
Connect ==
    /\ pc = "connecting"
    /\ connected' = TRUE
    /\ pc' = "waiting"
    /\ UNCHANGED <<room_metadata, env, business_name, booking_agent, registered, inv,
                   sent, netCalls, nInv, prev>>

\* the participant joins: the assistant is built, both tools are registered,
\* the assistant is started and greets
ParticipantJoined ==
    /\ pc = "waiting"
    /\ registered' = {"check_availability", "book_appointment"}
    /\ pc' = "active"
    /\ UNCHANGED <<room_metadata, env, business_name, booking_agent, connected, inv,
                   sent, netCalls, nInv, prev>>

(***************************************************************************)
(* Tool invocations by the dialog layer                                    *)
(***************************************************************************)
CanInvoke(tool) ==
    /\ pc = "active"
    /\ tool \in registered
    /\ inv.phase \in {"idle", "returned"}
    /\ nInv < MaxInvocations

\* the dialog layer calls check_availability(date, duration_minutes)
CheckAvailabilityInvoked ==
    /\ CanInvoke("check_availability")
    /\ \E date \in AvailabilityDates, duration_minutes \in AvailabilityDurations :
          inv' = [NoInvocation EXCEPT !.op = "check_availability", !.phase = "invoked",
                                      !.date = date,
                                      !.duration_minutes = duration_minutes]
    /\ sent' = <<>>
    /\ nInv' = nInv + 1
    /\ UNCHANGED <<pc, room_metadata, env, business_name, booking_agent, connected,
                   registered, netCalls>>

\* check_availability runs to its await: the request goes out
CheckAvailabilitySend ==
    /\ inv.op = "check_availability"
    /\ inv.phase = "invoked"
    /\ inv' = [inv EXCEPT !.phase = "awaiting"]
    /\ sent' = sent \o <<AvailabilityRequest(booking_agent, inv.date, inv.duration_minutes)>>
    /\ netCalls' = netCalls + 1
    /\ UNCHANGED <<pc, room_metadata, env, business_name, booking_agent, connected,
                   registered, nInv, prev>>

\* the backend answers (or the transport fails) and check_availability returns
CheckAvailabilityReturn ==
    /\ inv.op = "check_availability"
    /\ inv.phase = "awaiting"
    /\ \E response \in AvailabilityResponses :
          LET outcome == check_availability(inv.date, response)
          IN  inv' = [inv EXCEPT !.phase = "returned", !.response = response,
                                 !.reply = outcome.ret, !.raised = outcome.exc]
    /\ UNCHANGED <<pc, room_metadata, env, business_name, booking_agent, connected,
                   registered, sent, netCalls, nInv, prev>>

\* the dialog layer calls book_appointment(date, time, service, customer_name,
\* customer_phone, duration_minutes)
BookAppointmentInvoked ==
    /\ CanInvoke("book_appointment")
    /\ \E date \in Dates, time \in Times, service \in Services,
          customer_name \in CustomerNames, customer_phone \in CustomerPhones,
          duration_minutes \in Durations :
          inv' = [NoInvocation EXCEPT !.op = "book_appointment", !.phase = "invoked",
                                      !.date = date, !.time = time,
                                      !.service = service,
                                      !.customer_name = customer_name,
                                      !.customer_phone = customer_phone,
                                      !.duration_minutes = duration_minutes]
    /\ sent' = <<>>
    /\ nInv' = nInv + 1
    /\ UNCHANGED <<pc, room_metadata, env, business_name, booking_agent, connected,
                   registered, netCalls>>

\* book_appointment runs to its await: the times are derived and the request
\* goes out, or deriving them raises and the operation returns at once
BookAppointmentSend ==
    /\ inv.op = "book_appointment"
    /\ inv.phase = "invoked"
    /\ LET requests == BookingRequests(booking_agent, inv.date, inv.time, inv.service,
                                       inv.customer_name, inv.customer_phone,
                                       inv.duration_minutes)
       IN  /\ sent' = sent \o requests
           /\ netCalls' = netCalls + Len(requests)
           /\ IF Len(requests) = 0
              THEN inv' = [inv EXCEPT !.phase = "returned",
                                      !.reply = book_appointment_unsent.ret,
                                      !.raised = book_appointment_unsent.exc]
              ELSE inv' = [inv EXCEPT !.phase = "awaiting"]
    /\ UNCHANGED <<pc, room_metadata, env, business_name, booking_agent, connected,
                   registered, nInv, prev>>

\* the backend answers (or the transport fails) and book_appointment returns
BookAppointmentReturn ==
    /\ inv.op = "book_appointment"
    /\ inv.phase = "awaiting"
    /\ \E response \in BookingResponses :
          LET outcome == book_appointment(inv.date, inv.time, inv.service, response)
          IN  inv' = [inv EXCEPT !.phase = "returned", !.response = response,
                                 !.reply = outcome.ret, !.raised = outcome.exc]
    /\ UNCHANGED <<pc, room_metadata, env, business_name, booking_agent, connected,
                   registered, sent, netCalls, nInv, prev>>

\* the two invocations as the program runs them (the history is not kept)
InvokeCheckAvailability == CheckAvailabilityInvoked /\ UNCHANGED prev

InvokeBookAppointment == BookAppointmentInvoked /\ UNCHANGED prev

Next ==
    \/ EntrypointSetup
    \/ Connect
    \/ ParticipantJoined
    \/ InvokeCheckAvailability
    \/ CheckAvailabilitySend
    \/ CheckAvailabilityReturn
    \/ InvokeBookAppointment
    \/ BookAppointmentSend
    \/ BookAppointmentReturn

Spec == Init /\ [][Next]_vars

(***************************************************************************)
(* The same program with the previous completed invocation remembered, on  *)
(* a smaller choice of arguments and answers.                              *)
(***************************************************************************)
HistoryDates == { <<"2", "0", "2", "4", "-", "0", "6", "-", "0", "1">>, <<"t", "o", "m", "o", "r", "r", "o", "w">> }

HistoryTimes == { <<"1", "4", ":", "0", "0">> }

HistoryDurations == { 30 }

HistoryResponses ==
    { r \in AvailabilityResponses \cup BookingResponses :
        /\ Len(r.body.slots) <= 1
        /\ r.status \notin {204, 302} }

InvokeCheckAvailabilityH ==
    /\ CheckAvailabilityInvoked
    /\ inv'.date \in HistoryDates
    /\ inv'.duration_minutes \in HistoryDurations
    /\ prev' = inv

InvokeBookAppointmentH ==
    /\ BookAppointmentInvoked
    /\ inv'.date \in HistoryDates
    /\ inv'.time \in HistoryTimes
    /\ inv'.duration_minutes \in HistoryDurations
    /\ prev' = inv

CheckAvailabilityReturnH ==
    /\ CheckAvailabilityReturn
    /\ inv'.response \in HistoryResponses

BookAppointmentReturnH ==
    /\ BookAppointmentReturn
    /\ inv'.response \in HistoryResponses

NextHistory ==
    \/ EntrypointSetup
    \/ Connect
    \/ ParticipantJoined
    \/ InvokeCheckAvailabilityH
    \/ CheckAvailabilitySend
    \/ CheckAvailabilityReturnH
    \/ InvokeBookAppointmentH
    \/ BookAppointmentSend
    \/ BookAppointmentReturnH

SpecHistory == Init /\ [][NextHistory]_vars

(***************************************************************************)
(* Properties                                                              *)
(***************************************************************************)
Returned(i, op) == i.op = op /\ i.phase = "returned"

NonEmptyText(text) == \E k \in 1..Len(text) : text[k] # ""

\* C1: every invocation of check_availability or book_appointment that has
\* completed returned a non-empty string, and no invocation, whatever the
\* backend did and whatever the arguments were, let an exception escape.
C1_AlwaysReturnsText ==
    /\ ~inv.raised
    /\ inv.phase = "returned" => NonEmptyText(inv.reply)

\* an invocation whose try block raised (transport failure, bad payload,
\* unparsable date or time) and that has returned
C1_Witness ==
    \/ /\ Returned(inv, "check_availability")
       /\ AvailabilityTry(inv.date, inv.response).exc
       /\ inv.response.body.kind = "not_json"
    \/ /\ Returned(inv, "book_appointment")
       /\ Len(sent) = 0
       /\ inv.date = <<"t", "o", "m", "o", "r", "r", "o", "w">>

\* check_availability failed: the backend was unreachable (transport error or
\* timeout) or answered with a non-2xx status
AvailabilityFailed(i) ==
    /\ Returned(i, "check_availability")
    /\ \/ i.response.transport # "ok"
       \/ i.response.status < 200
       \/ i.response.status > 299

\* C2: whenever check_availability fails because the backend is unreachable or
\* answers non-2xx, the returned string is one and the same fixed sentence:
\* two failed invocations in a row, whatever the kind of failure, return equal
\* strings.
C2_OneFailureSentence ==
    (AvailabilityFailed(prev) /\ AvailabilityFailed(inv)) => inv.reply = prev.reply

\* the call metadata holds no businessId: no metadata, metadata that is not
\* valid JSON or not a JSON object, a missing key, or an empty value
NoBusinessId(md) ==
    \/ md.text # "object"
    \/ md.businessId \in {Absent, PyNone, PyStr("")}

\* C3: when the call metadata has no businessId, entrypoint aborts call setup:
\* no AppointmentBookingAgent is created, no tool is registered, the room is
\* never connected, no tool is invoked and no request reaches the backend.
C3_NoBusinessIdAborts ==
    NoBusinessId(room_metadata) =>
        /\ pc \in {"start", "aborted"}
        /\ booking_agent = NoAgent
        /\ registered = {}
        /\ ~connected
        /\ nInv = 0
        /\ netCalls = 0
        /\ Len(sent) = 0
        /\ pc = "aborted" => ~ENABLED Next

C3_Witness == pc = "aborted" /\ room_metadata.businessId = PyStr("")

\* a < b for two isoformat() texts of equal length
IsoBefore(a, b) ==
    \E k \in 1..Len(a) :
        /\ \A j \in 1..(k - 1) : a[j] = b[j]
        /\ IsDigit(a[k]) /\ IsDigit(b[k])
        /\ DigitVal(a[k]) < DigitVal(b[k])

\* C4: every booking request book_appointment sends has endTime strictly
\* later than startTime, for every duration_minutes the operation accepts.
C4_EndAfterStart ==
    \A k \in 1..Len(sent) :
        sent[k].method = "POST" => IsoBefore(sent[k].startTime, sent[k].endTime)

\* check_availability was answered 200 with a JSON object, available = true
\* and a list of slots
AvailableAnswer(i) ==
    /\ Returned(i, "check_availability")
    /\ i.response.transport = "ok"
    /\ i.response.status = 200
    /\ i.response.body.kind = "object"
    /\ i.response.body.available = PyTrue
    /\ i.response.body.slotsKind = "list"

\* the time strings a returned sentence lists: the ", "-separated items
\* between ". Some available times are: " and the closing question
ListedTimes(reply) ==
    IF Len(reply) > 0 /\ reply[1] = "Yes, we have availability on "
    THEN LET k == FirstIndex(reply, ". Some available times are: ")
         IN  StrSplit(SubSeq(reply, k + 1, Len(reply) - 1), ", ")
    ELSE <<>>

IsHHMM(t) ==
    /\ Len(t) = 5
    /\ IsDigit(t[1]) /\ IsDigit(t[2]) /\ t[3] = ":" /\ IsDigit(t[4]) /\ IsDigit(t[5])

\* a slot whose startTime is text containing "T"
HasTimePart(slot) ==
    /\ slot.kind = "object"
    /\ slot.startTime.t = "str"
    /\ \E k \in 1..Len(slot.startTime.v) : slot.startTime.v[k] = "T"

\* the five characters that follow the "T" of a startTime
TimeOfDay(slot) ==
    IF HasTimePart(slot)
    THEN LET k == FirstIndex(slot.startTime.v, "T")
         IN  SubSeq(slot.startTime.v, k + 1,
                    IF k + 5 <= Len(slot.startTime.v) THEN k + 5 ELSE Len(slot.startTime.v))
    ELSE <<"(none)">>

\* a is a subsequence of b
RECURSIVE IsSubsequence(_, _)
IsSubsequence(a, b) ==
    IF Len(a) = 0 THEN TRUE
    ELSE IF Len(b) = 0 THEN FALSE
    ELSE IF Head(a) = Head(b) THEN IsSubsequence(Tail(a), Tail(b))
    ELSE IsSubsequence(a, Tail(b))

HourMinute(v) ==
    LET a     == FirstIndex(v, "T")
        rest  == SubSeq(v, a + 1, Len(v))
        b     == FirstIndex(rest, "T")
        field == IF b = 0 THEN rest ELSE SubSeq(rest, 1, b - 1)
        c1    == FirstIndex(field, ":")
        c2    == FirstIndex(SubSeq(field, c1 + 1, Len(field)), ":")
    IN  IF c1 = 0 \/ c2 = 0 THEN field ELSE SubSeq(field, 1, c1 + c2 - 1)

\* v reads YYYY-MM-DDTHH:MM, possibly followed by more
IsIsoTimestamp(v) ==
    /\ Len(v) >= 16
    /\ \A k \in {1, 2, 3, 4, 6, 7, 9, 10, 12, 13, 15, 16} : IsDigit(v[k])
    /\ v[5] = "-" /\ v[8] = "-" /\ v[11] = "T" /\ v[14] = ":"

\* a slot the loop cannot process: not an object, or a null startTime
Unreadable(slot) == slot.kind # "object" \/ slot.startTime.t = "none"

C6_EmptyListReportsCount ==
    (AvailableAnswer(inv) /\ Len(inv.response.body.slots) = 0) =>
        /\ inv.reply[1] = "We have "
        /\ inv.reply # NoAvailabilitySentence(inv.date)

\* C6 as amended: answered 200 with available = true and an empty slot list,
\* the returned sentence says there is no availability on that date; the
\* count sentence is returned only for a non-empty list none of whose first
\* five slots has a startTime containing "T", and counts those first five.
C6_EmptyListMeansNoAvailability ==
    /\ (AvailableAnswer(inv) /\ Len(inv.response.body.slots) = 0) =>
          inv.reply = NoAvailabilitySentence(inv.date)
    /\ (Returned(inv, "check_availability") /\ inv.reply[1] = "We have ") =>
          LET five == Take(inv.response.body.slots, 5)
          IN  /\ AvailableAnswer(inv)
              /\ Len(five) >= 1
              /\ Len(SelectSeq(five, HasTimePart)) = 0
              /\ inv.reply = SlotCountSentence(Len(five), inv.date)

C6_Witness ==
    /\ AvailableAnswer(inv)
    /\ Len(inv.response.body.slots) = 0
    /\ inv.reply = NoAvailabilitySentence(inv.date)

\* book_appointment was answered with a status other than 201 and a JSON
\* object whose error is a string
BookingRejected(i) ==
    /\ Returned(i, "book_appointment")
    /\ i.response.transport = "ok"
    /\ i.response.status # 201
    /\ i.response.body.kind = "object"
    /\ i.response.body.error.t = "str"

C8_AtMostOneRequest ==
    /\ Len(sent) <= 1
    /\ netCalls <= nInv
    /\ (Returned(inv, "book_appointment")
        /\ ~Strptime(inv.date \o <<" ">> \o inv.time).ok) => Len(sent) = 0

\* a second invocation whose date and time did not parse, after a first that
\* sent its one request
C8_Witness ==
    /\ Returned(inv, "book_appointment")
    /\ ~Strptime(inv.date \o <<" ">> \o inv.time).ok
    /\ nInv = 2
    /\ netCalls = 1

\* date reads YYYY-MM-DD and names a day of the calendar
WellFormedDate(date) ==
    /\ Len(date) = 10
    /\ Strptime(date \o <<" ", "0", "0", ":", "0", "0">>).ok

\* C9: for every date argument that is not a well-formed YYYY-MM-DD calendar
\* date, check_availability fails closed with the transfer-to-staff message,
\* whatever the backend answered.  Either of the two trouble sentences of
\* check_availability is taken here as that message.
C9_MalformedDateFailsClosed ==
    (Returned(inv, "check_availability") /\ ~WellFormedDate(inv.date)) =>
        inv.reply \in {AvailabilityTroubleStaff, AvailabilityTroubleNow}

\* the same operation with the same arguments and the same answer
SameCall(a, b) ==
    /\ a.phase = "returned" /\ b.phase = "returned"
    /\ a.op = b.op
    /\ a.date = b.date /\ a.time = b.time /\ a.service = b.service
    /\ a.customer_name = b.customer_name /\ a.customer_phone = b.customer_phone
    /\ a.duration_minutes = b.duration_minutes
    /\ a.response = b.response

\* C10: after any sequence of invocations the agent still holds the
\* business_id of the call's metadata and the backend configuration of the
\* environment, every outbound request carries them, an invocation returns
\* what the preceding one returned for the same arguments and answer, and
\* either operation can be invoked whatever was invoked before.
C10_Stateless ==
    /\ pc \in {"connecting", "waiting", "active"} =>
          /\ booking_agent.business_id = room_metadata.businessId
          /\ booking_agent.elevoi_api_url =
                (IF env.ELEVOI_API_URL.t = "absent" THEN "https://elevoi.vercel.app"
                 ELSE env.ELEVOI_API_URL.v)
          /\ booking_agent.elevoi_api_key =
                (IF env.ELEVOI_API_KEY.t = "absent" THEN "" ELSE env.ELEVOI_API_KEY.v)
    /\ \A k \in 1..Len(sent) :
          /\ sent[k].businessId = room_metadata.businessId
          /\ sent[k].url[1] = booking_agent.elevoi_api_url
          /\ sent[k].authorization[2] = booking_agent.elevoi_api_key
    /\ SameCall(prev, inv) => inv.reply = prev.reply
    /\ (pc = "active" /\ inv.phase \in {"idle", "returned"} /\ nInv < MaxInvocations) =>
          /\ ENABLED InvokeBookAppointmentH
          /\ ENABLED InvokeCheckAvailabilityH

\* book_appointment twice with the same arguments and answer, never preceded
\* by a check_availability
C10_Witness ==
    /\ SameCall(prev, inv)
    /\ inv.op = "book_appointment"
    /\ inv.response.status = 201
    /\ nInv = 2

====
